---- MODULE Spec2Model ----
(***************************************************************************)
(* Model of chamber_scraper.py: the three-level crawl                      *)
(* (chamber -> category -> business), the website field extractor and the  *)
(* CSV output.  Strings are TLA+ strings; Python's `in`, startswith,       *)
(* lower and strip are computed character by character.                    *)
(***************************************************************************)
EXTENDS Integers, Sequences, FiniteSets, TLC

(***************************************************************************)
(* Bounds                                                                  *)
(***************************************************************************)
\* longest list of hyperlinks given to extract_website on its own
MaxLinks == 3
\* longest sequence of chamber targets given to main
MaxChambers == 2

(***************************************************************************)
(* Python string operations                                                *)
(***************************************************************************)
\* n in s
Contains(s, n) ==
  \E i \in 1..(Len(s) - Len(n) + 1) : SubSeq(s, i, i + Len(n) - 1) = n

\* s.startswith(p)
StartsWith(s, p) == Len(s) >= Len(p) /\ SubSeq(s, 1, Len(p)) = p

LowerChar(c) ==
  CASE c = "A" -> "a" [] c = "B" -> "b" [] c = "C" -> "c" [] c = "D" -> "d"
    [] c = "E" -> "e" [] c = "F" -> "f" [] c = "G" -> "g" [] c = "H" -> "h"
    [] c = "I" -> "i" [] c = "J" -> "j" [] c = "K" -> "k" [] c = "L" -> "l"
    [] c = "M" -> "m" [] c = "N" -> "n" [] c = "O" -> "o" [] c = "P" -> "p"
    [] c = "Q" -> "q" [] c = "R" -> "r" [] c = "S" -> "s" [] c = "T" -> "t"
    [] c = "U" -> "u" [] c = "V" -> "v" [] c = "W" -> "w" [] c = "X" -> "x"
    [] c = "Y" -> "y" [] c = "Z" -> "z" [] OTHER -> c

\* s.lower()
RECURSIVE lower(_)
lower(s) ==
  IF s = "" THEN ""
  ELSE LowerChar(SubSeq(s, 1, 1)) \o lower(SubSeq(s, 2, Len(s)))

IsSpace(c) == c \in {" ", "\t", "\n", "\r"}

RECURSIVE lstrip(_)
lstrip(s) ==
  IF s # "" /\ IsSpace(SubSeq(s, 1, 1)) THEN lstrip(SubSeq(s, 2, Len(s)))
  ELSE s

RECURSIVE rstrip(_)
rstrip(s) ==
  IF s # "" /\ IsSpace(SubSeq(s, Len(s), Len(s)))
  THEN rstrip(SubSeq(s, 1, Len(s) - 1))
  ELSE s

\* s.strip()
strip(s) == rstrip(lstrip(s))

(***************************************************************************)
(* extract_website                                                         *)
(***************************************************************************)
\* the first literal list of extract_website, matched against href.lower()
SkipList ==
  {"facebook.com", "twitter.com", "instagram.com", "linkedin.com",
   "mailto:", "tel:", "business.", "chambermaster.blob"}

\* the second literal list of extract_website, matched against href itself
ChamberDomains ==
  {"goschamber.com", "clintonchamber.org", "easternchamberct.org",
   "mysticchamber.org", "crvchamber.org"}

\* any(x in href.lower() for x in [...])
IsSkipped(href) == \E x \in SkipList : Contains(lower(href), x)

\* href.startswith('http') and not any(x in href for x in [...])
IsExternal(href) ==
  StartsWith(href, "http") /\ ~ \E x \in ChamberDomains : Contains(href, x)

\* links: the hrefs of soup.find_all('a', href=True), in document order
RECURSIVE extract_website(_)
extract_website(links) ==
  IF links = <<>> THEN ""
  ELSE IF IsSkipped(Head(links)) THEN extract_website(Tail(links))
  ELSE IF IsExternal(Head(links)) THEN Head(links)
  ELSE extract_website(Tail(links))

(***************************************************************************)
(* urljoin, for absolute and root-relative and path-relative references   *)
(***************************************************************************)
\* index of the first "/" of s at or after position i, Len(s) + 1 if none
RECURSIVE SlashFrom(_, _)
SlashFrom(s, i) ==
  IF i > Len(s) THEN Len(s) + 1
  ELSE IF SubSeq(s, i, i) = "/" THEN i
  ELSE SlashFrom(s, i + 1)

\* index of the last "/" of s at or before position i, 0 if none
RECURSIVE SlashBefore(_, _)
SlashBefore(s, i) ==
  IF i < 1 THEN 0
  ELSE IF SubSeq(s, i, i) = "/" THEN i
  ELSE SlashBefore(s, i - 1)

IsAbsolute(href) == StartsWith(href, "http://") \/ StartsWith(href, "https://")

\* scheme://host of an absolute URL
Origin(url) ==
  LET start == IF StartsWith(url, "https://") THEN 9 ELSE 8
  IN  SubSeq(url, 1, SlashFrom(url, start) - 1)

\* urljoin(base, href)
urljoin(base, href) ==
  IF IsAbsolute(href) THEN href
  ELSE IF href = "" THEN base
  ELSE IF StartsWith(href, "/") THEN Origin(base) \o href
  ELSE IF SlashBefore(base, Len(base)) > Len(Origin(base))
       THEN SubSeq(base, 1, SlashBefore(base, Len(base))) \o href
       ELSE Origin(base) \o "/" \o href

(***************************************************************************)
(* The chamber targets and the pages the remote servers hold               *)
(***************************************************************************)
OldSaybrook ==
  [name |-> "Old Saybrook Chamber", url |-> "https://business.goschamber.com/list"]

Clinton ==
  [name |-> "Clinton Chamber", url |-> "https://business.clintonchamber.org/list"]

\* {'name': ..., 'url': ...} pairs as main builds them
Targets == {OldSaybrook, Clinton}

A(href, text) == [href |-> href, text |-> text]

EmptyPage ==
  [anchors |-> <<>>, h1 |-> <<>>, title |-> <<>>, about |-> <<>>,
   phone |-> "", address |-> "", email |-> ""]

\* A parsed page: anchors are the <a href=...> elements in document order;
\* h1, title are sequences of length 0 (element absent) or 1 (its text);
\* about is the list of text fragments of the parent of the first
\* "About Us" string (empty when there is none); phone, address, email are
\* the first matches of the three patterns in the page text ("" when none).
Web(url) ==
  CASE url = "https://business.goschamber.com/list" ->
         [EmptyPage EXCEPT !.anchors =
            << A("/list/ql/dining-1", "  Dining\n"),
               A("/about", "About"),
               A("https://business.goschamber.com/list/ql/retail-2", "Retail") >>,
            !.title = <<"Directory">>]
    [] url = "https://business.clintonchamber.org/list" ->
         [EmptyPage EXCEPT !.anchors =
            << A("mailto:info@clintonchamber.org", "Mail"),
               A("/list/ql/lodging-3", "Lodging ") >>]
    [] url = "https://business.goschamber.com/list/ql/dining-1" ->
         [EmptyPage EXCEPT !.anchors =
            << A("/list/member/cafe-10", "Cafe"),
               A("/contact", "Contact"),
               A("/list/member/deli-11", "Deli") >>]
    [] url = "https://business.goschamber.com/list/ql/retail-2" ->
         [EmptyPage EXCEPT !.anchors =
            << A("/contact", "Contact"),
               A("https://business.goschamber.com/list/member/books-12", "Books"),
               A("/list/ql/dining-1", "Dining") >>]
    [] url = "https://business.clintonchamber.org/list/ql/lodging-3" ->
         [EmptyPage EXCEPT !.anchors =
            << A("/list/member/inn-13", "Inn") >>]
    [] url = "https://business.goschamber.com/list/member/cafe-10" ->
         [anchors |-> << A("facebook.com/x", "fb"), A("tel:123", "call"),
                         A("https://example-biz.com", "site") >>,
          h1 |-> <<" Shoreline Cafe ">>,
          title |-> <<"Cafe | Clinton Chamber | Lodging">>,
          about |-> <<" About Us ", "Coffee and pastry. ">>,
          phone |-> "(860) 555-0101",
          address |-> "12 Main Street, Old Saybrook, CT 06475",
          email |-> "hello@example-biz.com"]
    [] url = "https://business.goschamber.com/list/member/deli-11" ->
         [EmptyPage EXCEPT !.anchors =
            << A("https://business.goschamber.com/list", "back"),
               A("mailto:deli@example.org", "mail") >>,
            !.title = <<"Clinton Chamber\n">>]
    [] url = "https://business.goschamber.com/list/member/books-12" ->
         EmptyPage
    [] url = "https://business.clintonchamber.org/list/member/inn-13" ->
         [EmptyPage EXCEPT !.anchors =
            << A("https://www.clintonchamber.org/", "chamber"),
               A("http://inn.example.org/", "site") >>,
            !.h1 = <<"Harbor Inn">>,
            !.title = <<"Old Saybrook Chamber">>]
    [] OTHER -> EmptyPage

\* the pages a successful fetch of url may return: the server's page, or
\* for some URLs another edition of it
Served(url) ==
  {Web(url)} \cup
  CASE url = "https://business.goschamber.com/list" ->
         {[EmptyPage EXCEPT !.anchors = << A("/about", "About") >>]}
    [] url = "https://business.goschamber.com/list/ql/dining-1" ->
         {[EmptyPage EXCEPT !.anchors =
             << A("/list/member/deli-11", "Deli"),
                A("/list/ql/dining-1", "Dining"),
                A("/list/member/deli-11", "Deli (again)") >>]}
    [] OTHER -> {}

\* the calendar dates datetime.now() may format during a run
Dates == {"2026-11-05"}

(***************************************************************************)
(* Link discovery and record assembly                                      *)
(***************************************************************************)
\* soup.find_all('a', href=re.compile(pattern)) for a literal pattern
find_all(soup, pattern) ==
  SelectSeq(soup.anchors, LAMBDA a : Contains(a.href, pattern))

\* scrape_chamber_list: the category links of the root page
category_links_of(soup) == find_all(soup, "/list/ql/")

\* business_links_of without the href pattern
business_links_of_all(soup) == soup.anchors

\* scrape_category: the business links of the category page
business_links_of(soup) == find_all(soup, "/list/member/")

\* link.text.strip()
category_name_of(link) == strip(link.text)

\* s[:n]
Truncate(s, n) == SubSeq(s, 1, IF Len(s) < n THEN Len(s) ELSE n)

\* get_text(strip=True): the stripped fragments, joined
RECURSIVE get_text_strip(_)
get_text_strip(frags) ==
  IF frags = <<>> THEN ""
  ELSE strip(Head(frags)) \o get_text_strip(Tail(frags))

Hrefs(anchors) == [i \in 1..Len(anchors) |-> anchors[i].href]

\* business_data with the chamber read from the page title when there is one
business_data_from_page(soup, url, chamber, category, date) ==
  LET website == extract_website(Hrefs(soup.anchors))
  IN  [business_name |-> IF soup.h1 # <<>> THEN strip(soup.h1[1])
                         ELSE IF soup.title # <<>> THEN strip(soup.title[1])
                         ELSE "Unknown",
       chamber |-> IF soup.title # <<>> THEN strip(soup.title[1]) ELSE chamber,
       category |-> category,
       phone |-> soup.phone,
       address |-> soup.address,
       email |-> soup.email,
       website |-> website,
       has_website |-> IF website # "" THEN "Yes" ELSE "No",
       description |-> Truncate(get_text_strip(soup.about), 200),
       chamber_url |-> url,
       scraped_date |-> date]

\* the dictionary scrape_business assembles from the parsed page
business_data(soup, url, chamber, category, date) ==
  LET business_name == IF soup.h1 # <<>> THEN strip(soup.h1[1])
                       ELSE IF soup.title # <<>> THEN strip(soup.title[1])
                       ELSE "Unknown"
      description == get_text_strip(soup.about)
      website == extract_website(Hrefs(soup.anchors))
  IN  [business_name |-> business_name,
       chamber |-> chamber,
       category |-> category,
       phone |-> soup.phone,
       address |-> soup.address,
       email |-> soup.email,
       website |-> website,
       has_website |-> IF website # "" THEN "Yes" ELSE "No",
       description |-> Truncate(description, 200),
       chamber_url |-> url,
       scraped_date |-> date]

\* save_to_csv: fieldnames
fieldnames ==
  << "business_name", "chamber", "category", "phone", "address", "email",
     "website", "has_website", "description", "chamber_url", "scraped_date" >>

\* the row csv.DictWriter writes for one dictionary
Row(b) ==
  << b.business_name, b.chamber, b.category, b.phone, b.address, b.email,
     b.website, b.has_website, b.description, b.chamber_url, b.scraped_date >>

\* writeheader() followed by writerows(businesses)
CsvRows(bs) == <<fieldnames>> \o [i \in 1..Len(bs) |-> Row(bs[i])]

\* save_to_csv without the early return on an empty collection
save_to_csv_always(bs, file) == [exists |-> TRUE, rows |-> CsvRows(bs)]

\* save_to_csv: the file at the output path after the call
save_to_csv(bs, file) ==
  IF bs = <<>> THEN file
  ELSE [exists |-> TRUE, rows |-> CsvRows(bs)]

(***************************************************************************)
(* try/except of the three handlers: what a fetch outcome leads to         *)
(***************************************************************************)
\* scrape_business without its try/except
scrape_business_outcome_raising(ok) == IF ok THEN "appended" ELSE "raised"

\* scrape_business appending also when the fetch failed
scrape_business_outcome_always(ok) == "appended"

\* scrape_business: a failed get/raise_for_status is caught by its except
scrape_business_outcome(ok) == IF ok THEN "appended" ELSE "caught"

\* scrape_category without its try/except
scrape_category_outcome_raising(ok) == IF ok THEN "loop" ELSE "raised"

\* scrape_category: a failed get/raise_for_status is caught by its except
scrape_category_outcome(ok) == IF ok THEN "loop" ELSE "caught"

\* scrape_chamber_list without its try/except
scrape_chamber_list_outcome_raising(ok) == IF ok THEN "loop" ELSE "raised"

\* scrape_chamber_list: a failed get/raise_for_status is caught by its except
scrape_chamber_list_outcome(ok) == IF ok THEN "loop" ELSE "caught"

\* after_business with the delay skipped when the business was skipped
after_business_no_delay(outcome, more) ==
  IF outcome = "raised" THEN "cat_sleep"
  ELSE IF outcome = "caught"
       THEN (IF more THEN "category_loop" ELSE "cat_sleep")
  ELSE "biz_sleep"

\* scrape_category: where control goes when scrape_business has ended
\* (an exception out of it would end the loop in scrape_category's except)
after_business(outcome, more) ==
  IF outcome = "raised" THEN "cat_sleep" ELSE "biz_sleep"

\* scrape_chamber_list: where control goes when scrape_category has ended
\* (an exception out of it would end the loop in scrape_chamber_list's except)
after_category(outcome, links) ==
  IF outcome = "raised" THEN "main"
  ELSE IF outcome = "loop" /\ links # <<>> THEN "category_loop"
  ELSE "cat_sleep"

\* main: where control goes when scrape_chamber_list has ended
\* (main has no try: an exception out of it ends the process)
after_chamber(outcome, links) ==
  IF outcome = "raised" THEN "crashed"
  ELSE IF outcome = "loop" /\ links # <<>> THEN "chamber_loop"
  ELSE "main"

(***************************************************************************)
(* State                                                                   *)
(***************************************************************************)
VARIABLES
  chambers,        \* main: the list of chamber targets
  today,           \* the date datetime.now() formats
  pc,              \* where the single thread of control stands
  ci,              \* main: number of chambers the for loop has taken
  base_url,        \* scrape_chamber_list: parameter
  chamber_name,    \* scrape_chamber_list: parameter
  category_links,  \* scrape_chamber_list: local
  cati,            \* scrape_chamber_list: number of links the loop has taken
  category_url,    \* scrape_category: parameter
  category_name,   \* scrape_category: parameter
  business_links,  \* scrape_category: local
  bi,              \* scrape_category: number of links the loop has taken
  businesses,      \* ChamberScraper.businesses
  csvfile,         \* the file at the output path
  log,             \* history: handler invocations and delays, in order
  ctx,             \* history: for each record, the traversal position
  page_links,      \* extract_website on its own: the hrefs of the page
  website          \* extract_website on its own: the value returned

vars ==
  << chambers, today, pc, ci, base_url, chamber_name, category_links, cati,
     category_url, category_name, business_links, bi, businesses, csvfile,
     log, ctx, page_links, website >>

NoFile == [exists |-> FALSE, rows |-> <<>>]

\* one entry of the history: soup is the page a successful fetch returned
Ev(op, c, k, b, url, ok, soup, raised) ==
  [op |-> op, ci |-> c, cati |-> k, bi |-> b, url |-> url, ok |-> ok,
   soup |-> IF ok THEN soup ELSE EmptyPage, raised |-> raised]

\* all sequences over S of length lo..hi
SeqsOf(S, lo, hi) == UNION {[1..n -> S] : n \in lo..hi}

\* main: the chamber list is the defaults or the name/url pairs of argv,
\* never empty when the crawl starts
Init ==
  /\ chambers \in SeqsOf(Targets, 1, MaxChambers)
  /\ today \in Dates
  /\ pc = "main"
  /\ ci = 0
  /\ base_url = ""
  /\ chamber_name = ""
  /\ category_links = <<>>
  /\ cati = 0
  /\ category_url = ""
  /\ category_name = ""
  /\ business_links = <<>>
  /\ bi = 0
  /\ businesses = <<>>
  /\ csvfile = NoFile
  /\ log = <<>>
  /\ ctx = <<>>
  /\ page_links = <<>>
  /\ website = ""

(***************************************************************************)
(* Steps of the crawl                                                      *)
(***************************************************************************)
\* main calls scrape_chamber_list for the next chamber: the root page fetch
ScrapeChamberList ==
  /\ pc = "main"
  /\ ci < Len(chambers)
  /\ \E ok \in BOOLEAN, soup \in Served(chambers[ci + 1].url) :
       LET chamber == chambers[ci + 1]
           links == category_links_of(soup)
           outcome == scrape_chamber_list_outcome(ok)
       IN  /\ ci' = ci + 1
           /\ base_url' = chamber.url
           /\ chamber_name' = chamber.name
           /\ category_links' = IF ok THEN links ELSE <<>>
           /\ cati' = 0
           /\ pc' = after_chamber(outcome, links)
           /\ log' = Append(log, Ev("scrape_chamber_list", ci + 1, 0, 0,
                                    chamber.url, ok, soup,
                                    outcome = "raised"))
  /\ UNCHANGED << chambers, today, category_url, category_name,
                  business_links, bi, businesses, csvfile, ctx, page_links,
                  website >>

\* scrape_chamber_list calls scrape_category for the next category link:
\* the category page fetch
ScrapeCategory ==
  /\ pc = "chamber_loop"
  /\ cati < Len(category_links)
  /\ \E ok \in BOOLEAN,
        soup \in Served(urljoin(base_url, category_links[cati + 1].href)) :
       LET link == category_links[cati + 1]
           url == urljoin(base_url, link.href)
           links == business_links_of(soup)
           outcome == scrape_category_outcome(ok)
       IN  /\ cati' = cati + 1
           /\ category_name' = category_name_of(link)
           /\ category_url' = url
           /\ business_links' = IF ok THEN links ELSE <<>>
           /\ bi' = 0
           /\ pc' = after_category(outcome, links)
           /\ log' = Append(log, Ev("scrape_category", ci, cati + 1, 0, url,
                                    ok, soup, outcome = "raised"))
  /\ UNCHANGED << chambers, today, ci, base_url, chamber_name,
                  category_links, businesses, csvfile, ctx, page_links,
                  website >>

\* scrape_category calls scrape_business for the next business link: the
\* business page fetch, the extraction and the append
ScrapeBusiness ==
  /\ pc = "category_loop"
  /\ bi < Len(business_links)
  /\ \E ok \in BOOLEAN,
        soup \in Served(urljoin(category_url, business_links[bi + 1].href)) :
       LET link == business_links[bi + 1]
           business_url == urljoin(category_url, link.href)
           outcome == scrape_business_outcome(ok)
           data == business_data(soup, business_url,
                                 chamber_name, category_name, today)
       IN  /\ bi' = bi + 1
           /\ businesses' = IF outcome = "appended"
                            THEN Append(businesses, data) ELSE businesses
           /\ ctx' = IF outcome = "appended"
                     THEN Append(ctx, [ci |-> ci, cati |-> cati, bi |-> bi + 1,
                                       link_text |-> category_links[cati].text,
                                       fetched |-> business_url])
                     ELSE ctx
           /\ pc' = after_business(outcome, bi + 1 < Len(business_links))
           /\ log' = Append(log, Ev("scrape_business", ci, cati, bi + 1,
                                    business_url, ok, soup,
                                    outcome = "raised"))
  /\ UNCHANGED << chambers, today, ci, base_url, chamber_name,
                  category_links, cati, category_url, category_name,
                  business_links, csvfile, page_links, website >>

\* scrape_category: time.sleep(0.5), then the next link or the return
SleepBusiness ==
  /\ pc = "biz_sleep"
  /\ log' = Append(log, Ev("sleep_0.5", ci, cati, bi, "", TRUE, EmptyPage,
                          FALSE))
  /\ pc' = IF bi < Len(business_links) THEN "category_loop" ELSE "cat_sleep"
  /\ UNCHANGED << chambers, today, ci, base_url, chamber_name,
                  category_links, cati, category_url, category_name,
                  business_links, bi, businesses, csvfile, ctx, page_links,
                  website >>

\* scrape_chamber_list: time.sleep(1), then the next link or the return
SleepCategory ==
  /\ pc = "cat_sleep"
  /\ log' = Append(log, Ev("sleep_1", ci, cati, 0, "", TRUE, EmptyPage, FALSE))
  /\ pc' = IF cati < Len(category_links) THEN "chamber_loop" ELSE "main"
  /\ UNCHANGED << chambers, today, ci, base_url, chamber_name,
                  category_links, cati, category_url, category_name,
                  business_links, bi, businesses, csvfile, ctx, page_links,
                  website >>

\* main: the loop over the chambers has ended, save_to_csv
SaveToCsv ==
  /\ pc = "main"
  /\ ci = Len(chambers)
  /\ csvfile' = save_to_csv(businesses, csvfile)
  /\ pc' = "done"
  /\ UNCHANGED << chambers, today, ci, base_url, chamber_name,
                  category_links, cati, category_url, category_name,
                  business_links, bi, businesses, log, ctx, page_links,
                  website >>

Next ==
  \/ ScrapeChamberList
  \/ ScrapeCategory
  \/ ScrapeBusiness
  \/ SleepBusiness
  \/ SleepCategory
  \/ SaveToCsv

Spec == Init /\ [][Next]_vars

(***************************************************************************)
(* extract_website on its own, over bounded lists of hyperlink targets     *)
(***************************************************************************)
LinkTargets ==
  {"https://example-biz.com", "http://inn.example.org/", "facebook.com/x",
   "tel:123", "https://www.Facebook.com/biz",
   "https://business.goschamber.com/list", "https://www.clintonchamber.org/",
   "/list/member/cafe-10", "httpdocs/about.html"}

InitWebsite ==
  /\ page_links \in SeqsOf(LinkTargets, 0, MaxLinks)
  /\ website = ""
  /\ pc = "extract"
  /\ chambers = <<>>
  /\ today \in Dates
  /\ ci = 0
  /\ base_url = ""
  /\ chamber_name = ""
  /\ category_links = <<>>
  /\ cati = 0
  /\ category_url = ""
  /\ category_name = ""
  /\ business_links = <<>>
  /\ bi = 0
  /\ businesses = <<>>
  /\ csvfile = NoFile
  /\ log = <<>>
  /\ ctx = <<>>

\* website = self.extract_website(soup)
ExtractWebsite ==
  /\ pc = "extract"
  /\ website' = extract_website(page_links)
  /\ pc' = "extracted"
  /\ UNCHANGED << chambers, today, ci, base_url, chamber_name,
                  category_links, cati, category_url, category_name,
                  business_links, bi, businesses, csvfile, log, ctx,
                  page_links >>

NextWebsite == ExtractWebsite

SpecWebsite == InitWebsite /\ [][NextWebsite]_vars

(***************************************************************************)
(* Reading the history                                                     *)
(***************************************************************************)
Last(q) == q[Len(q)]

\* the hyperlinks of a page whose target contains the pattern, in order
Matching(soup, pattern) ==
  SelectSeq(soup.anchors, LAMBDA a : Contains(a.href, pattern))

IsBusinessEv(e) == e.op = "scrape_business"

IsCategoryEv(e) == e.op = "scrape_category"

IsChamberEv(e) == e.op = "scrape_chamber_list"

\* the invocation of scrape_chamber_list for the c-th chamber
ChamberEv(c) == CHOOSE e \in {log[n] : n \in 1..Len(log)} : IsChamberEv(e) /\ e.ci = c

\* the invocation of scrape_category for the k-th category link of chamber c
CategoryEv(c, k) ==
  CHOOSE e \in {log[n] : n \in 1..Len(log)} :
    IsCategoryEv(e) /\ e.ci = c /\ e.cati = k

\* the invocations of scrape_business under category link k of chamber c
BusinessEvs(c, k) ==
  SelectSeq(log, LAMBDA e : IsBusinessEv(e) /\ e.ci = c /\ e.cati = k)

\* the step just taken was an invocation of op whose fetch failed
FailedStep(op) ==
  /\ Len(log') = Len(log) + 1
  /\ Last(log').op = op
  /\ ~ Last(log').ok

(***************************************************************************)
(* C1                                                                      *)
(***************************************************************************)
C1_NextLink ==
  \A n \in 1..Len(log) :
    LET e == log[n]
        links == Matching(CategoryEv(e.ci, e.cati).soup, "/list/member/")
    IN  (IsBusinessEv(e) /\ ~ e.ok /\ e.bi < Len(links)) =>
          ((pc = "done" \/ Len(log) >= n + 2) =>
             /\ Len(log) >= n + 2
             /\ IsBusinessEv(log[n + 2])
             /\ log[n + 2].ci = e.ci
             /\ log[n + 2].cati = e.cati
             /\ log[n + 2].bi = e.bi + 1
             /\ log[n + 2].url =
                  urljoin(CategoryEv(e.ci, e.cati).url, links[e.bi + 1].href))

C1_Step ==
  FailedStep("scrape_business") =>
    /\ businesses' = businesses
    /\ ~ Last(log').raised
    /\ pc' # "crashed"

C2_LaterChambers ==
  \A n \in 1..Len(log) :
    LET e == log[n]
    IN  (IsChamberEv(e) /\ ~ e.ok) =>
          /\ \A m \in 1..Len(log) : log[m].ci = e.ci => m = n
          /\ \A i \in 1..Len(ctx) : ctx[i].ci # e.ci
          /\ e.ci < Len(chambers) =>
               ((pc = "done" \/ Len(log) > n) =>
                  /\ Len(log) > n
                  /\ IsChamberEv(log[n + 1])
                  /\ log[n + 1].ci = e.ci + 1
                  /\ log[n + 1].url = chambers[e.ci + 1].url)
          /\ pc = "done" =>
               \A c \in (e.ci + 1)..Len(chambers) :
                 \E m \in 1..Len(log) : IsChamberEv(log[m]) /\ log[m].ci = c

C2_Step ==
  FailedStep("scrape_chamber_list") =>
    /\ businesses' = businesses
    /\ ~ Last(log').raised
    /\ pc' # "crashed"

\* C2: when the root page fetch of a chamber fails, scrape_chamber_list
\* returns without raising and without appending a record for that chamber,
\* the records of earlier chambers are kept, and every later chamber of the
\* sequence is still traversed.
C2_FailedChamberIsSkipped == [] C2_LaterChambers /\ [][C2_Step]_vars

\* the root page fetch of the first chamber failed, and the second chamber
\* was traversed and produced a record
C2_Witness ==
  /\ pc = "done"
  /\ \E n \in 1..Len(log) :
       IsChamberEv(log[n]) /\ log[n].ci = 1 /\ ~ log[n].ok
  /\ \E i \in 1..Len(ctx) : ctx[i].ci = 2

(***************************************************************************)
(* C3                                                                      *)
(***************************************************************************)
C3_LaterCategories ==
  \A n \in 1..Len(log) :
    LET e == log[n]
        links == Matching(ChamberEv(e.ci).soup, "/list/ql/")
    IN  (IsCategoryEv(e) /\ ~ e.ok) =>
          /\ BusinessEvs(e.ci, e.cati) = <<>>
          /\ e.cati < Len(links) =>
               ((pc = "done" \/ Len(log) >= n + 2) =>
                  /\ Len(log) >= n + 2
                  /\ IsCategoryEv(log[n + 2])
                  /\ log[n + 2].ci = e.ci
                  /\ log[n + 2].cati = e.cati + 1
                  /\ log[n + 2].url =
                       urljoin(ChamberEv(e.ci).url, links[e.cati + 1].href))
          /\ pc = "done" =>
               \A k \in (e.cati + 1)..Len(links) :
                 \E m \in 1..Len(log) :
                   IsCategoryEv(log[m]) /\ log[m].ci = e.ci /\ log[m].cati = k

C3_Step ==
  FailedStep("scrape_category") =>
    /\ businesses' = businesses
    /\ ~ Last(log').raised
    /\ pc' # "crashed"

HeaderAndRows(file, bs) ==
  /\ file.exists
  /\ Len(file.rows) = Len(bs) + 1
  /\ file.rows[1] = fieldnames
  /\ \A i \in 1..Len(bs) :
       /\ Len(file.rows[i + 1]) = Len(fieldnames)
       /\ \A j \in 1..Len(fieldnames) :
            file.rows[i + 1][j] = bs[i][fieldnames[j]]

\* C4 as stated: every run that has traversed all its chambers has produced
\* an output file of the header row and one row per record.
C4_FileAlwaysWritten ==
  pc = "done" => HeaderAndRows(csvfile, businesses)

\* C4, amended: after all chambers have been traversed, a non-empty
\* collection is written as the header row followed by one row per record in
\* collection order, an empty collection leaves no file written; nothing is
\* written before the last chamber's traversal has finished.
C4_FileWrittenFromRecords ==
  /\ csvfile.exists => pc = "done"
  /\ pc = "done" =>
       /\ ci = Len(chambers)
       /\ businesses # <<>> => HeaderAndRows(csvfile, businesses)
       /\ businesses = <<>> => csvfile = NoFile

\* a run with a failed fetch that still wrote two or more records
C4_Witness ==
  /\ pc = "done"
  /\ Len(businesses) >= 2
  /\ csvfile.exists
  /\ Len(csvfile.rows) = Len(businesses) + 1
  /\ \E n \in 1..Len(log) : ~ log[n].ok

C8_CategoryIsLinkText ==
  \A i \in 1..Len(businesses) :
    /\ businesses[i].chamber = chambers[ctx[i].ci].name
    /\ businesses[i].category = ctx[i].link_text
    /\ businesses[i].chamber_url = ctx[i].fetched
    /\ businesses[i].chamber_url # ""

\* C8, amended: every record carries as chamber the name of the chamber
\* target whose traversal was active when it was appended, as category the
\* link text of its category link with leading and trailing whitespace
\* removed, and as chamber_url the non-empty business page URL that was
\* fetched.
C8_RecordCarriesContext ==
  \A i \in 1..Len(businesses) :
    /\ businesses[i].chamber = chambers[ctx[i].ci].name
    /\ businesses[i].category = strip(ctx[i].link_text)
    /\ businesses[i].chamber_url = ctx[i].fetched
    /\ businesses[i].chamber_url # ""

\* a record whose category link text has surrounding whitespace and whose
\* page names another chamber in its title
C8_Witness ==
  \E i \in 1..Len(businesses), n \in 1..Len(log) :
    /\ ctx[i].link_text # strip(ctx[i].link_text)
    /\ IsBusinessEv(log[n]) /\ log[n].ok
    /\ log[n].ci = ctx[i].ci /\ log[n].cati = ctx[i].cati
    /\ log[n].bi = ctx[i].bi
    /\ log[n].soup.title # <<>>
    /\ \E t \in Targets :
         /\ t.name # businesses[i].chamber
         /\ Contains(log[n].soup.title[1], t.name)

(***************************************************************************)
(* C9                                                                      *)
(***************************************************************************)
\* the successful invocations of scrape_business, in the order they happened
OkBusinessEvs == SelectSeq(log, LAMBDA e : IsBusinessEv(e) /\ e.ok)

\* position a comes before position b in depth-first order
Before(a, b) ==
  \/ a.ci < b.ci
  \/ a.ci = b.ci /\ a.cati < b.cati
  \/ a.ci = b.ci /\ a.cati = b.cati /\ a.bi < b.bi

C9_OnePerSuccess ==
  LET oks == OkBusinessEvs
  IN  /\ Len(businesses) = Len(oks)
      /\ \A i \in 1..Len(oks) :
           /\ businesses[i].chamber_url = oks[i].url
           /\ businesses[i].chamber = chambers[oks[i].ci].name
           /\ businesses[i].scraped_date = today
           /\ i > 1 => Before(oks[i - 1], oks[i])

C9_AppendOnly ==
  /\ Len(businesses') \in {Len(businesses), Len(businesses) + 1}
  /\ SubSeq(businesses', 1, Len(businesses)) = businesses

\* C9: the record collection is, element for element and in order, the
\* sequence of successful scrape_business invocations in depth-first
\* traversal order, one record per success and none per failure; it only
\* grows by appending at its end.
C9_CollectionIsSuccessesInOrder == [] C9_OnePerSuccess /\ [][C9_AppendOnly]_vars

\* a finished run over two chambers with records from both and a failure
C9_Witness ==
  /\ pc = "done"
  /\ \E i, j \in 1..Len(ctx) : ctx[i].ci = 1 /\ ctx[j].ci = 2
  /\ \E n \in 1..Len(log) : IsBusinessEv(log[n]) /\ ~ log[n].ok

Denylisted(href) ==
  \E x \in SkipList \cup ChamberDomains : Contains(lower(href), x)

\* the target begins with the http or the https scheme
HasHttpScheme(href) == StartsWith(href, "http://") \/ StartsWith(href, "https://")

\* the link passes the denylist-plus-scheme filter
Qualifies(href) == ~ Denylisted(href) /\ HasHttpScheme(href)

Qualifying(links) == SelectSeq(links, Qualifies)

\* C5: extract_website returns the empty string if no link passes the
\* denylist-plus-scheme filter, and otherwise the earliest link in document
\* order that passes it.
C5_FirstQualifyingLink ==
  pc = "extracted" =>
    website = IF Qualifying(page_links) = <<>> THEN ""
              ELSE Head(Qualifying(page_links))

\* C6: the value extract_website returns is the empty string or a target
\* that begins with the http or https scheme and matches no denylist entry.
C6_WebsiteIsHttpUrl ==
  pc = "extracted" =>
    website = "" \/ (HasHttpScheme(website) /\ ~ Denylisted(website))

====
